---- MODULE Spec2Model ----
(***************************************************************************)
(* Page-replacement simulator: the Clock (second chance) engine and the    *)
(* two LRU engines (the hitIndex variant and the prevState variant), the   *)
(* form validation of ui.js and the submit handler of main.js.             *)
(*                                                                         *)
(* JavaScript arrays are modelled as functions whose non-negative keys are *)
(* the array's indices (0-based, as in the source) and whose other keys    *)
(* are plain properties (frames[-1], useBits[NaN]), which neither          *)
(* indexOf, nor the spread [...a], nor length see.                         *)
(***************************************************************************)
EXTENDS Integers, Sequences, FiniteSets, TLC

\* ------------------------------------------------------------------ bounds
MaxFrames == 2      \* engine runs use frameCount in 1..MaxFrames
MaxRefs == 4        \* reference sequences have at most MaxRefs entries
MaxPage == 1        \* page identifiers range over (Empty - 1)..MaxPage

\* --------------------------------------------------------------- constants
\* The 'empty slot' sentinel of Array(frameCount).fill(-1).
Empty == -1
\* JavaScript's NaN (x % 0, parseInt of a non-number): an integer no index,
\* page or frame count of the model equals.
NaN == -99
\* JavaScript's null (page / evictedPage of a step): a value no page
\* identifier of the model equals.
Null == MaxPage + 1

PageIds == (Empty - 1)..MaxPage

\* ------------------------------------------------------- JavaScript arrays
Max(a, b) == IF a >= b THEN a ELSE b
Min(a, b) == IF a <= b THEN a ELSE b

\* The index keys of an array (its other keys are properties).
Indices(a) == {k \in DOMAIN a : k >= 0}

\* a.length
Length(a) == IF Indices(a) = {} THEN 0
             ELSE 1 + CHOOSE m \in Indices(a) : \A k \in Indices(a) : k <= m

\* Mutant of NewArray: one slot too many.
NewArrayOneMore(n, v) == [k \in 0..n |-> v]

\* Array(n).fill(v), for n >= 0 (a negative or NaN n throws RangeError)
NewArray(n, v) == [k \in 0..(n - 1) |-> v]

\* [...a]
Spread(a) == [k \in Indices(a) |-> a[k]]

\* a[k] = v
Put(a, k, v) == [x \in (DOMAIN a) \cup {k} |-> IF x = k THEN v ELSE a[x]]

\* a.push(v)
Push(a, v) == Put(a, Length(a), v)

\* Mutant of IndexOf: the last index holding v (lastIndexOf).
LastIndexOf(a, v) ==
    IF \E k \in Indices(a) : a[k] = v
    THEN CHOOSE k \in Indices(a) :
            a[k] = v /\ \A j \in Indices(a) : a[j] = v => j <= k
    ELSE -1

\* a.indexOf(v): the first index holding v, or -1
IndexOf(a, v) ==
    IF \E k \in Indices(a) : a[k] = v
    THEN CHOOSE k \in Indices(a) :
            a[k] = v /\ \A j \in Indices(a) : a[j] = v => k <= j
    ELSE -1

\* a.includes(v)
Includes(a, v) == \E k \in Indices(a) : a[k] = v

\* a.splice(start, 1): a negative start counts from the end
Splice1(a, start) ==
    LET len == Length(a)
        s   == IF start < 0 THEN Max(len + start, 0) ELSE Min(start, len)
    IN  IF s >= len THEN a
        ELSE [k \in 0..(len - 2) |-> IF k < s THEN a[k] ELSE a[k + 1]]

\* a.shift(): the array left after removing its first element
Shift(a) == [k \in 0..(Length(a) - 2) |-> a[k + 1]]

\* ---------------------------------------------------------------- state
VARIABLES
    numFrames,        \* form field 'num-frames' (a string: sequence of characters)
    referenceString,  \* form field 'reference-string' (its comma-separated tokens)
    simulationData,   \* animation module: the displayed result
    currentStep,      \* animation module: the step shown
    isPlaying,        \* animation module: auto-play is on
    animationInterval,\* animation module: the id setInterval returned last
    animationSpeed,   \* animation module: delay between two ticks
    timers,           \* the live interval timers: id -> delay
    canvas,           \* what drawFrame drew last
    timeline,         \* the timeline slider and its label
    policy,           \* which engine runs: "Clock", "LRU" (hitIndex variant), "LRUPrev"
    pages,            \* engine argument
    frameCount,       \* engine argument
    pc,               \* position of control
    idx,              \* number of references taken by the for..of loop
    frames,
    useBits,
    clockPointer,
    recency,
    pageFaults,
    pageHits,
    steps,
    hitRatio,
    missRatio,
    inspected,        \* history: the slots inspected by the current/last fault scan
    baseline          \* the result of an earlier call, kept for comparison

formVars == <<numFrames, referenceString>>
animVars == <<simulationData, currentStep, isPlaying, animationInterval,
             animationSpeed, timers, canvas, timeline>>
argVars == <<policy, pages, frameCount>>
runVars == <<idx, frames, useBits, clockPointer, recency, pageFaults, pageHits,
             steps, hitRatio, missRatio, inspected>>
vars == <<formVars, animVars, argVars, pc, runVars, baseline>>

\* The array no run has allocated yet.
NoArray == [k \in {} |-> 0]

\* The reference the for..of loop is processing.
page == pages[idx]

\* Mutant of Ratio: the percentage is truncated, not rounded.
RatioTruncated(count, totalRequests) ==
    IF totalRequests > 0 THEN (count * 10000) \div totalRequests ELSE 0

\* ((count / totalRequests) * 100).toFixed(2), in hundredths of a percent
\* (round half up); 0 for an empty reference sequence.
Ratio(count, totalRequests) ==
    IF totalRequests > 0
    THEN (2 * count * 10000 + totalRequests) \div (2 * totalRequests)
    ELSE 0

\* ------------------------------------------------------------ Clock engine
\* Mutant of Advance: the wrap-around is forgotten.
AdvanceNoWrap(p, n) == p + 1

\* (clockPointer + 1) % frameCount; x % 0 and NaN + 1 are NaN.
Advance(p, n) == IF p = NaN \/ n = 0 THEN NaN ELSE (p + 1) % n

\* Mutant of UseBitIsZero: the use bit is ignored (plain FIFO replacement).
UseBitIgnored(bits, p) == TRUE

\* useBits[clockPointer] === 0; a missing key reads undefined.
UseBitIsZero(bits, p) == p \in DOMAIN bits /\ bits[p] = 0

\* Mutant of SecondChance: the use bit is left set.
SecondChanceKeepsBit(bits, p) == bits

\* The second chance: useBits[clockPointer] = 0
SecondChance(bits, p) == Put(bits, p, 0)

\* Mutant of MarkReferenced: a hit leaves the reference bit as it was.
MarkReferencedForgotten(bits, j) == bits

\* A hit sets the reference bit: useBits[j] = 1
MarkReferenced(bits, j) == Put(bits, j, 1)

\* Mutant of ClockFind: only slot 0 is compared.
ClockFindFirstSlotOnly(fr, pg, n) == IF n > 0 /\ fr[0] = pg THEN 0 ELSE -1

\* The hit loop: the first j < frameCount with frames[j] === page, or -1.
ClockFind(fr, pg, n) ==
    IF \E j \in 0..(n - 1) : fr[j] = pg
    THEN CHOOSE j \in 0..(n - 1) :
            fr[j] = pg /\ \A i \in 0..(n - 1) : fr[i] = pg => j <= i
    ELSE -1

\* Mutant of Frozen: the steps hold the live frames array, not copies of it.
Aliased(stps, fr) ==
    [i \in DOMAIN stps |-> [stps[i] EXCEPT !.frames = Spread(fr)]]

\* The steps recorded so far, read once the live frames array holds fr: each
\* step holds its own copy ([...frames]), so writes to the live array do not
\* reach it.
Frozen(stps, fr) == stps

\* Mutant of ClockStep: the two counters are recorded in each other's field.
ClockStepSwappedCounters(fr, bits, ptr, pg, isFault, foundIndex, nFaults, nHits) ==
    [frames |-> Spread(fr), useBits |-> Spread(bits), pointer |-> ptr,
     page |-> pg, fault |-> isFault, hitIndex |-> foundIndex,
     faults |-> nHits, hits |-> nFaults]

\* Mutant of ClockStep: the snapshot is taken before pageHits++ .
ClockStepStaleHits(fr, bits, ptr, pg, isFault, foundIndex, nFaults, nHits) ==
    [frames |-> Spread(fr), useBits |-> Spread(bits), pointer |-> ptr,
     page |-> pg, fault |-> isFault, hitIndex |-> foundIndex,
     faults |-> nFaults, hits |-> IF isFault THEN nHits ELSE nHits - 1]

\* The snapshot pushed after every reference.
ClockStep(fr, bits, ptr, pg, isFault, foundIndex, nFaults, nHits) ==
    [frames |-> Spread(fr), useBits |-> Spread(bits), pointer |-> ptr,
     page |-> pg, fault |-> isFault, hitIndex |-> foundIndex,
     faults |-> nFaults, hits |-> nHits]

\* The snapshot pushed before any reference is processed.
ClockInitialStep(fr, bits, ptr) ==
    [frames |-> Spread(fr), useBits |-> Spread(bits), pointer |-> ptr,
     page |-> Null, fault |-> FALSE, faults |-> 0, hits |-> 0]

\* Initialization; Array(frameCount) throws RangeError for a negative or
\* NaN frameCount.
ClockInit ==
    /\ pc = "call"
    /\ policy = "Clock"
    /\ IF frameCount < 0 \/ frameCount = NaN
       THEN /\ pc' = "error"
            /\ UNCHANGED runVars
       ELSE /\ frames' = NewArray(frameCount, Empty)
            /\ useBits' = NewArray(frameCount, 0)
            /\ clockPointer' = 0
            /\ pageFaults' = 0
            /\ pageHits' = 0
            /\ steps' = Push(NoArray,
                    ClockInitialStep(frames', useBits', clockPointer'))
            /\ idx' = 0
            /\ pc' = "loop"
            /\ UNCHANGED <<recency, hitRatio, missRatio, inspected>>
    /\ UNCHANGED <<baseline, formVars, animVars, argVars>>

\* One reference: the hit check; on a hit the step is pushed, on a fault the
\* scan starts.
ClockReference ==
    /\ pc = "loop"
    /\ policy = "Clock"
    /\ idx < Length(pages)
    /\ LET j == ClockFind(frames, page, frameCount) IN
       IF j # -1
       THEN /\ useBits' = MarkReferenced(useBits, j)
            /\ pageHits' = pageHits + 1
            /\ steps' = Push(Frozen(steps, frames), ClockStep(frames, useBits', clockPointer,
                                page, FALSE, j, pageFaults, pageHits'))
            /\ idx' = idx + 1
            /\ pc' = "loop"
            /\ UNCHANGED <<frames, clockPointer, pageFaults, inspected>>
       ELSE /\ pageFaults' = pageFaults + 1
            /\ inspected' = <<>>
            /\ pc' = "scan"
            /\ UNCHANGED <<idx, frames, useBits, clockPointer, pageHits, steps>>
    /\ UNCHANGED <<baseline, formVars, animVars, argVars, recency, hitRatio, missRatio>>

\* One iteration of the while (true) scan; the placement breaks out of the
\* loop and the step is pushed.
ClockInspect ==
    /\ pc = "scan"
    /\ policy = "Clock"
    /\ inspected' = Append(inspected, clockPointer)
    /\ clockPointer' = Advance(clockPointer, frameCount)
    /\ IF UseBitIsZero(useBits, clockPointer)
       THEN /\ frames' = Put(frames, clockPointer, page)
            /\ useBits' = Put(useBits, clockPointer, 1)
            /\ steps' = Push(Frozen(steps, frames'), ClockStep(frames', useBits', clockPointer',
                                page, TRUE, -1, pageFaults, pageHits))
            /\ idx' = idx + 1
            /\ pc' = "loop"
       ELSE /\ useBits' = SecondChance(useBits, clockPointer)
            /\ pc' = "scan"
            /\ UNCHANGED <<frames, steps, idx>>
    /\ UNCHANGED <<baseline, formVars, animVars, argVars, recency, pageFaults, pageHits,
                   hitRatio, missRatio>>

\* Final statistics and return.
ClockReturn ==
    /\ pc = "loop"
    /\ policy = "Clock"
    /\ idx = Length(pages)
    /\ hitRatio' = Ratio(pageHits, Length(pages))
    /\ missRatio' = Ratio(pageFaults, Length(pages))
    /\ pc' = "done"
    /\ UNCHANGED <<baseline, formVars, animVars, argVars, idx, frames, useBits,
                   clockPointer, recency, pageFaults, pageHits, steps, inspected>>

\* --------------------------------------------- recency list (both LRU engines)
\* A hit: recency.splice(recency.indexOf(page), 1); recency.push(page)
Touch(rec, pg) == Push(Splice1(rec, IndexOf(rec, pg)), pg)

\* An eviction: recency.shift() removes the front, recency.push(page)
Rotate(rec, pg) == Push(Shift(rec), pg)

\* ----------------------------------------------- LRU engine, hitIndex variant
LRUStep(fr, rec, pg, isFault, foundIndex, nFaults, nHits, evicted) ==
    [frames |-> Spread(fr), recency |-> Spread(rec), page |-> pg,
     fault |-> isFault, hitIndex |-> foundIndex, faults |-> nFaults,
     hits |-> nHits, evictedPage |-> evicted]

LRUInit ==
    /\ pc = "call"
    /\ policy = "LRU"
    /\ IF frameCount < 0 \/ frameCount = NaN
       THEN /\ pc' = "error"
            /\ UNCHANGED runVars
       ELSE /\ frames' = NewArray(frameCount, Empty)
            /\ recency' = NoArray
            /\ pageFaults' = 0
            /\ pageHits' = 0
            /\ steps' = Push(NoArray,
                    LRUStep(frames', recency', Null, FALSE, -1, 0, 0, Null))
            /\ idx' = 0
            /\ pc' = "loop"
            /\ UNCHANGED <<useBits, clockPointer, hitRatio, missRatio, inspected>>
    /\ UNCHANGED <<baseline, formVars, animVars, argVars>>

\* One reference: hit, fault into an empty frame, or fault with eviction.
LRUReference ==
    /\ pc = "loop"
    /\ policy = "LRU"
    /\ idx < Length(pages)
    /\ LET pageFoundIndex == IndexOf(frames, page)
           emptyFrameIndex == IndexOf(frames, Empty)
           lruPage == recency[0]
           evictIndex == IndexOf(frames, lruPage)
       IN
       IF pageFoundIndex # -1
       THEN /\ pageHits' = pageHits + 1
            /\ recency' = Touch(recency, page)
            /\ steps' = Push(Frozen(steps, frames), LRUStep(frames, recency', page, FALSE,
                                pageFoundIndex, pageFaults, pageHits', Null))
            /\ UNCHANGED <<frames, pageFaults>>
       ELSE /\ pageFaults' = pageFaults + 1
            /\ IF emptyFrameIndex # -1
               THEN /\ frames' = Put(frames, emptyFrameIndex, page)
                    /\ recency' = Push(recency, page)
                    /\ steps' = Push(Frozen(steps, frames'), LRUStep(frames', recency', page,
                                TRUE, pageFoundIndex, pageFaults', pageHits, Null))
               ELSE /\ frames' = Put(frames, evictIndex, page)
                    /\ recency' = Rotate(recency, page)
                    /\ steps' = Push(Frozen(steps, frames'), LRUStep(frames', recency', page,
                                TRUE, pageFoundIndex, pageFaults', pageHits, lruPage))
            /\ UNCHANGED pageHits
    /\ idx' = idx + 1
    /\ pc' = "loop"
    /\ UNCHANGED <<baseline, formVars, animVars, argVars, useBits, clockPointer,
                   hitRatio, missRatio, inspected>>

LRUReturn ==
    /\ pc = "loop"
    /\ policy = "LRU"
    /\ idx = Length(pages)
    /\ hitRatio' = Ratio(pageHits, Length(pages))
    /\ missRatio' = Ratio(pageFaults, Length(pages))
    /\ pc' = "done"
    /\ UNCHANGED <<baseline, formVars, animVars, argVars, idx, frames, useBits,
                   clockPointer, recency, pageFaults, pageHits, steps, inspected>>

\* ---------------------------------------------- LRU engine, prevState variant
\* prevState: null on the initial step.
NoPrevState == [isNull |-> TRUE]

\* Mutant of LRUPrevStep: the evicted page is never recorded.
LRUPrevStepNoEviction(fr, rec, pg, isFault, evicted, nFaults, nHits, prev) ==
    [frames |-> Spread(fr), recency |-> Spread(rec), page |-> pg,
     fault |-> isFault, evictedPage |-> Null, faults |-> nFaults,
     hits |-> nHits, prevState |-> prev]

\* Mutant of PrevState: the recency order is not copied.
PrevStateWithoutRecency(fr, rec) ==
    [isNull |-> FALSE, frames |-> Spread(fr), recency |-> NoArray]

PrevState(fr, rec) == [isNull |-> FALSE, frames |-> Spread(fr), recency |-> Spread(rec)]

LRUPrevStep(fr, rec, pg, isFault, evicted, nFaults, nHits, prev) ==
    [frames |-> Spread(fr), recency |-> Spread(rec), page |-> pg,
     fault |-> isFault, evictedPage |-> evicted, faults |-> nFaults,
     hits |-> nHits, prevState |-> prev]

LRUPrevInit ==
    /\ pc = "call"
    /\ policy = "LRUPrev"
    /\ IF frameCount < 0 \/ frameCount = NaN
       THEN /\ pc' = "error"
            /\ UNCHANGED runVars
       ELSE /\ frames' = NewArray(frameCount, Empty)
            /\ recency' = NoArray
            /\ pageFaults' = 0
            /\ pageHits' = 0
            /\ steps' = Push(NoArray,
                    LRUPrevStep(frames', recency', Null, FALSE, Null, 0, 0, NoPrevState))
            /\ idx' = 0
            /\ pc' = "loop"
            /\ UNCHANGED <<useBits, clockPointer, hitRatio, missRatio, inspected>>
    /\ UNCHANGED <<baseline, formVars, animVars, argVars>>

LRUPrevReference ==
    /\ pc = "loop"
    /\ policy = "LRUPrev"
    /\ idx < Length(pages)
    /\ LET prevState == PrevState(frames, recency)
           hitIndex == IndexOf(frames, page)
           emptyIndex == IndexOf(frames, Empty)
           lruPage == recency[0]
           lruIndexInFrames == IndexOf(frames, lruPage)
       IN
       IF hitIndex # -1
       THEN /\ pageHits' = pageHits + 1
            /\ recency' = Touch(recency, page)
            /\ steps' = Push(Frozen(steps, frames), LRUPrevStep(frames, recency', page, FALSE,
                                Null, pageFaults, pageHits', prevState))
            /\ UNCHANGED <<frames, pageFaults>>
       ELSE /\ pageFaults' = pageFaults + 1
            /\ IF Includes(frames, Empty)
               THEN /\ frames' = Put(frames, emptyIndex, page)
                    /\ recency' = Push(recency, page)
                    /\ steps' = Push(Frozen(steps, frames'), LRUPrevStep(frames', recency', page,
                                TRUE, Null, pageFaults', pageHits, prevState))
               ELSE /\ frames' = Put(frames, lruIndexInFrames, page)
                    /\ recency' = Rotate(recency, page)
                    /\ steps' = Push(Frozen(steps, frames'), LRUPrevStep(frames', recency', page,
                                TRUE, lruPage, pageFaults', pageHits, prevState))
            /\ UNCHANGED pageHits
    /\ idx' = idx + 1
    /\ pc' = "loop"
    /\ UNCHANGED <<baseline, formVars, animVars, argVars, useBits, clockPointer,
                   hitRatio, missRatio, inspected>>

LRUPrevReturn ==
    /\ pc = "loop"
    /\ policy = "LRUPrev"
    /\ idx = Length(pages)
    /\ hitRatio' = Ratio(pageHits, Length(pages))
    /\ missRatio' = Ratio(pageFaults, Length(pages))
    /\ pc' = "done"
    /\ UNCHANGED <<baseline, formVars, animVars, argVars, idx, frames, useBits,
                   clockPointer, recency, pageFaults, pageHits, steps, inspected>>

\* ------------------------------------------------------ engine specification
\* simulate(policy, references, frameCount) with a valid frameCount: every
\* reference sequence of at most MaxRefs page identifiers.
RefSeqs == UNION {[0..(n - 1) -> PageIds] : n \in 0..MaxRefs}

NoForm == <<>>
NoData == [loaded |-> FALSE]

\* let animationInterval = null
NoTimer == 0

\* let animationSpeed = 1000
DefaultSpeed == 1000

\* The canvas before anything is drawn, and after clearRect.
BlankCanvas == [drawn |-> FALSE]

\* The animation module as loaded, before any simulation is shown.
AnimationLoaded ==
    /\ simulationData = NoData
    /\ currentStep = 0
    /\ isPlaying = FALSE
    /\ animationInterval = NoTimer
    /\ animationSpeed = DefaultSpeed
    /\ timers = NoArray
    /\ canvas = BlankCanvas
    /\ timeline = [max |-> 0, value |-> 0, label |-> 0]

Init ==
    /\ numFrames = NoForm
    /\ referenceString = NoForm
    /\ AnimationLoaded
    /\ policy \in {"Clock", "LRU", "LRUPrev"}
    /\ pages \in RefSeqs
    /\ frameCount \in 1..MaxFrames
    /\ pc = "call"
    /\ idx = 0
    /\ frames = NoArray
    /\ useBits = NoArray
    /\ clockPointer = 0
    /\ recency = NoArray
    /\ pageFaults = 0
    /\ pageHits = 0
    /\ steps = NoArray
    /\ hitRatio = 0
    /\ missRatio = 0
    /\ inspected = <<>>
    /\ baseline = NoData

Next ==
    \/ ClockInit
    \/ ClockReference
    \/ ClockInspect
    \/ ClockReturn
    \/ LRUInit
    \/ LRUReference
    \/ LRUReturn
    \/ LRUPrevInit
    \/ LRUPrevReference
    \/ LRUPrevReturn

Spec == Init /\ [][Next]_vars

\* ------------------------------------------------- form input (ui.js, main.js)
\* Strings are sequences of one-character strings.
Digits == <<"0", "1", "2", "3", "4", "5", "6", "7", "8", "9">>

IsDigit(c) == \E d \in 1..10 : Digits[d] = c

DigitValue(c) == (CHOOSE d \in 1..10 : Digits[d] = c) - 1

RECURSIVE SkipSpaces(_)
SkipSpaces(str) ==
    IF str # <<>> /\ Head(str) = " " THEN SkipSpaces(Tail(str)) ELSE str

RECURSIVE DropTrailingSpaces(_)
DropTrailingSpaces(str) ==
    IF str # <<>> /\ str[Len(str)] = " "
    THEN DropTrailingSpaces(SubSeq(str, 1, Len(str) - 1))
    ELSE str

\* item.trim()
Trim(str) == DropTrailingSpaces(SkipSpaces(str))

RECURSIVE DigitsValue(_, _)
DigitsValue(str, acc) ==
    IF str = <<>> \/ ~IsDigit(Head(str)) THEN acc
    ELSE DigitsValue(Tail(str), 10 * acc + DigitValue(Head(str)))

\* parseInt(str): leading white space, an optional sign, the longest prefix
\* of digits; NaN when there is no digit.
ParseInt(str) ==
    LET t == SkipSpaces(str)
        signed == t # <<>> /\ Head(t) \in {"-", "+"}
        u == IF signed THEN Tail(t) ELSE t
    IN  IF u = <<>> \/ ~IsDigit(Head(u)) THEN NaN
        ELSE IF signed /\ Head(t) = "-" THEN 0 - DigitsValue(u, 0)
        ELSE DigitsValue(u, 0)

\* str.split(','): the tokens between the commas (one token for a string
\* without comma, the empty string included).
RECURSIVE SplitFrom(_, _, _)
SplitFrom(str, token, done) ==
    IF str = <<>> THEN Append(done, token)
    ELSE IF Head(str) = "," THEN SplitFrom(Tail(str), <<>>, Append(done, token))
    ELSE SplitFrom(Tail(str), Append(token, Head(str)), done)

Split(str) == SplitFrom(str, <<>>, <<>>)

\* The array split(',').map(s => parseInt(s.trim())) builds.
ParsedTokens(str) ==
    LET tokens == Split(str)
    IN  [k \in 0..(Len(tokens) - 1) |-> ParseInt(Trim(tokens[k + 1]))]

\* handleFormSubmit(): null, or {numFrames, referenceString}.
HandleFormSubmit ==
    IF numFrames = <<>> \/ referenceString = <<>>
    THEN [isNull |-> TRUE]
    ELSE IF Includes(ParsedTokens(referenceString), NaN)
    THEN [isNull |-> TRUE]
    ELSE [isNull |-> FALSE, numFrames |-> ParseInt(numFrames),
          referenceString |-> referenceString]

\* Mutant of Result: totalSteps counts the references, not the steps.
ResultCountsReferences ==
    [loaded |-> TRUE, steps |-> steps, pageFaults |-> pageFaults,
     pageHits |-> pageHits, hitRatio |-> hitRatio, missRatio |-> missRatio,
     totalSteps |-> Length(pages)]

\* The object an engine returns.
Result ==
    [loaded |-> TRUE, steps |-> steps, pageFaults |-> pageFaults,
     pageHits |-> pageHits, hitRatio |-> hitRatio, missRatio |-> missRatio,
     totalSteps |-> Length(steps)]

\* The submit listener up to the call of runClockAlgorithm.
Submit ==
    /\ pc = "form"
    /\ LET params == HandleFormSubmit IN
       IF params.isNull
       THEN /\ pc' = "rejected"
            /\ UNCHANGED <<pages, frameCount>>
       ELSE /\ pages' = ParsedTokens(params.referenceString)
            /\ frameCount' = params.numFrames
            /\ pc' = "call"
    /\ UNCHANGED <<baseline, formVars, animVars, policy, runVars>>

\* ------------------------------------------------------- animation module
\* The frame the Clock renderer highlights as replaced on a fault step.
ReplacedIndex(state) ==
    LET numFrames_ == Length(state.frames)
    IN  IF state.pointer = 0 THEN numFrames_ - 1 ELSE state.pointer - 1

\* The colour drawFrame gives the frame at index when it draws step cur:
\* the Clock renderer, the renderer of the hitIndex LRU variant and the
\* renderer of the prevState LRU variant.
FrameColor(state, index, cur) ==
    IF policy = "Clock"
    THEN IF cur > 0 /\ state.fault
         THEN IF ReplacedIndex(state) = index THEN "red" ELSE "blue"
         ELSE IF cur > 0 /\ ~state.fault /\ state.hitIndex = index
         THEN "green" ELSE "blue"
    ELSE IF policy = "LRU"
    THEN IF cur > 0 /\ ~state.fault /\ state.hitIndex = index THEN "green"
         ELSE IF cur > 0 /\ state.fault /\ state.frames[index] = state.page
         THEN "red" ELSE "blue"
    ELSE IF cur > 0
         THEN IF /\ state.fault
                 /\ state.evictedPage = state.prevState.frames[index]
                 /\ state.frames[index] # state.evictedPage
              THEN "red"
              ELSE IF ~state.fault /\ state.frames[index] = state.page
              THEN "green" ELSE "blue"
         ELSE "blue"

\* drawFrame(): the canvas after drawing step cur of data; nothing is drawn
\* without data.
DrawFrame(data, cur, old) ==
    IF ~data.loaded THEN old
    ELSE LET state == data.steps[cur]
         IN  [drawn |-> TRUE, step |-> cur,
              colors |-> [index \in Indices(state.frames) |->
                              FrameColor(state, index, cur)]]

\* updateTimeline(), called at the end of drawFrame.
UpdateTimeline(data, cur, old) ==
    IF ~data.loaded THEN old
    ELSE [old EXCEPT !.value = cur, !.label = cur]

\* setInterval: an id no live timer has and that was not handed out last.
NewTimerId(tm, last) ==
    CHOOSE i \in 1..(Cardinality(DOMAIN tm) + 2) :
        /\ i \notin DOMAIN tm
        /\ i # last
        /\ \A j \in 1..(i - 1) : j \in DOMAIN tm \/ j = last

SetInterval(tm, id, delay) ==
    [t \in DOMAIN tm \cup {id} |-> IF t = id THEN delay ELSE tm[t]]

\* Mutant of ClearInterval: the timer is left running.
ClearIntervalForgotten(tm, id) == tm

\* clearInterval(id): no effect when id names no live timer.
ClearInterval(tm, id) == [t \in DOMAIN tm \ {id} |-> tm[t]]

\* Mutant of Restart: play() resumes where it is, the last step included.
RestartNever(cur, data) == cur

\* play(): "if at the end, restart from the beginning"
Restart(cur, data) ==
    IF cur >= Length(data.steps) - 1 THEN 0 ELSE cur

\* The controls and the timer callback run when no listener is running:
\* before the first submission (the form untouched, or the engine's call not
\* yet made where no form is modelled) and after the submit listener returned
\* or threw; never inside a run of the engine.
Idle ==
    \/ pc \in {"form", "rejected", "shown", "error"}
    \/ pc = "call" /\ numFrames = NoForm /\ referenceString = NoForm

\* Mutant of Display: resetAnimation() without its pause().
DisplayKeepsTimer ==
    /\ pc = "done"
    /\ simulationData' = Result
    /\ currentStep' = 0
    /\ timeline' = [max |-> Length(Result.steps) - 1, value |-> 0, label |-> 0]
    /\ canvas' = DrawFrame(Result, 0, BlankCanvas)
    /\ pc' = "shown"
    /\ UNCHANGED <<baseline, formVars, argVars, runVars, isPlaying, timers,
                   animationInterval, animationSpeed>>

\* The submit listener after the engine returned: resetAnimation() and
\* animateSimulation(simulationData).
Display ==
    /\ pc = "done"
    /\ timers' = ClearInterval(timers, animationInterval)
    /\ isPlaying' = FALSE
    /\ simulationData' = Result
    /\ currentStep' = 0
    /\ timeline' = [max |-> Length(Result.steps) - 1, value |-> 0, label |-> 0]
    /\ canvas' = DrawFrame(Result, 0, BlankCanvas)
    /\ pc' = "shown"
    /\ UNCHANGED <<baseline, formVars, argVars, runVars, animationInterval, animationSpeed>>

play ==
    /\ Idle
    /\ IF isPlaying \/ ~simulationData.loaded
       THEN UNCHANGED animVars
       ELSE /\ isPlaying' = TRUE
            /\ currentStep' = Restart(currentStep, simulationData)
            /\ animationInterval' = NewTimerId(timers, animationInterval)
            /\ timers' = SetInterval(timers, animationInterval', animationSpeed)
            /\ UNCHANGED <<simulationData, animationSpeed, canvas, timeline>>
    /\ UNCHANGED <<baseline, formVars, argVars, pc, runVars>>

\* One firing of the callback of a live interval timer.
Tick ==
    /\ Idle
    /\ \E id \in DOMAIN timers :
           IF ~simulationData.loaded
           THEN UNCHANGED animVars
           ELSE IF currentStep < Length(simulationData.steps) - 1
           THEN /\ currentStep' = currentStep + 1
                /\ canvas' = DrawFrame(simulationData, currentStep', canvas)
                /\ timeline' = UpdateTimeline(simulationData, currentStep', timeline)
                /\ UNCHANGED <<simulationData, isPlaying, animationInterval,
                               animationSpeed, timers>>
           ELSE /\ timers' = ClearInterval(timers, animationInterval)
                /\ isPlaying' = FALSE
                /\ UNCHANGED <<simulationData, currentStep, animationInterval,
                               animationSpeed, canvas, timeline>>
    /\ UNCHANGED <<baseline, formVars, argVars, pc, runVars>>

pause ==
    /\ Idle
    /\ timers' = ClearInterval(timers, animationInterval)
    /\ isPlaying' = FALSE
    /\ UNCHANGED <<simulationData, currentStep, animationInterval,
                   animationSpeed, canvas, timeline>>
    /\ UNCHANGED <<baseline, formVars, argVars, pc, runVars>>

\* Mutant of stepForward: the check for the last step is missing.
stepForwardUnguarded ==
    /\ Idle
    /\ IF ~simulationData.loaded
       THEN UNCHANGED animVars
       ELSE /\ timers' = ClearInterval(timers, animationInterval)
            /\ isPlaying' = FALSE
            /\ currentStep' = currentStep + 1
            /\ canvas' = canvas
            /\ timeline' = [timeline EXCEPT !.value = currentStep', !.label = currentStep']
            /\ UNCHANGED <<simulationData, animationInterval, animationSpeed>>
    /\ UNCHANGED <<baseline, formVars, argVars, pc, runVars>>

stepForward ==
    /\ Idle
    /\ IF ~simulationData.loaded \/ currentStep >= Length(simulationData.steps) - 1
       THEN UNCHANGED animVars
       ELSE /\ timers' = ClearInterval(timers, animationInterval)
            /\ isPlaying' = FALSE
            /\ currentStep' = currentStep + 1
            /\ canvas' = DrawFrame(simulationData, currentStep', canvas)
            /\ timeline' = UpdateTimeline(simulationData, currentStep', timeline)
            /\ UNCHANGED <<simulationData, animationInterval, animationSpeed>>
    /\ UNCHANGED <<baseline, formVars, argVars, pc, runVars>>

stepBackward ==
    /\ Idle
    /\ IF ~simulationData.loaded \/ currentStep <= 0
       THEN UNCHANGED animVars
       ELSE /\ timers' = ClearInterval(timers, animationInterval)
            /\ isPlaying' = FALSE
            /\ currentStep' = currentStep - 1
            /\ canvas' = DrawFrame(simulationData, currentStep', canvas)
            /\ timeline' = UpdateTimeline(simulationData, currentStep', timeline)
            /\ UNCHANGED <<simulationData, animationInterval, animationSpeed>>
    /\ UNCHANGED <<baseline, formVars, argVars, pc, runVars>>

\* Mutant of jumpToStep: auto-play is left running.
jumpToStepKeepsPlaying(step) ==
    /\ Idle
    /\ IF ~simulationData.loaded
       THEN UNCHANGED animVars
       ELSE /\ currentStep' = step
            /\ canvas' = DrawFrame(simulationData, currentStep', canvas)
            /\ timeline' = UpdateTimeline(simulationData, currentStep', timeline)
            /\ UNCHANGED <<simulationData, isPlaying, timers, animationInterval,
                           animationSpeed>>
    /\ UNCHANGED <<baseline, formVars, argVars, pc, runVars>>

\* jumpToStep(step), step being the integer the timeline slider holds.
jumpToStep(step) ==
    /\ Idle
    /\ IF ~simulationData.loaded
       THEN UNCHANGED animVars
       ELSE /\ timers' = ClearInterval(timers, animationInterval)
            /\ isPlaying' = FALSE
            /\ currentStep' = step
            /\ canvas' = DrawFrame(simulationData, currentStep', canvas)
            /\ timeline' = UpdateTimeline(simulationData, currentStep', timeline)
            /\ UNCHANGED <<simulationData, animationInterval, animationSpeed>>
    /\ UNCHANGED <<baseline, formVars, argVars, pc, runVars>>

\* setSpeed(value): when playing, pause() and then play() with the new delay.
setSpeed(value) ==
    /\ Idle
    /\ animationSpeed' = 2100 - value
    /\ IF isPlaying
       THEN IF simulationData.loaded
            THEN /\ isPlaying' = TRUE
                 /\ currentStep' = Restart(currentStep, simulationData)
                 /\ animationInterval' =
                        NewTimerId(ClearInterval(timers, animationInterval),
                                   animationInterval)
                 /\ timers' = SetInterval(ClearInterval(timers, animationInterval),
                                          animationInterval', animationSpeed')
            ELSE /\ isPlaying' = FALSE
                 /\ timers' = ClearInterval(timers, animationInterval)
                 /\ UNCHANGED <<currentStep, animationInterval>>
       ELSE UNCHANGED <<isPlaying, currentStep, animationInterval, timers>>
    /\ UNCHANGED <<simulationData, canvas, timeline>>
    /\ UNCHANGED <<baseline, formVars, argVars, pc, runVars>>

\* -------------------------------------------- animation specification
\* The runs shown: reference sequences of at most MaxShownRefs pages.
MaxShownRefs == 2

\* Values of the speed slider (100 to 2000).
SpeedValues == {100, 2000}

InitAnim ==
    /\ Init
    /\ Length(pages) <= MaxShownRefs

NextAnim ==
    \/ ClockInit
    \/ ClockReference
    \/ ClockInspect
    \/ ClockReturn
    \/ LRUInit
    \/ LRUReference
    \/ LRUReturn
    \/ LRUPrevInit
    \/ LRUPrevReference
    \/ LRUPrevReturn
    \/ Display
    \/ play
    \/ pause
    \/ Tick
    \/ stepForward
    \/ stepBackward
    \/ \E step \in 0..timeline.max : jumpToStep(step)
    \/ \E value \in SpeedValues : setSpeed(value)

SpecAnim == InitAnim /\ [][NextAnim]_vars

\* Auto-play left alone: after a result is shown only play() is invoked and
\* the timer fires; setInterval keeps firing for as long as the timer is live.
NextPlayback ==
    \/ ClockInit
    \/ ClockReference
    \/ ClockInspect
    \/ ClockReturn
    \/ LRUInit
    \/ LRUReference
    \/ LRUReturn
    \/ LRUPrevInit
    \/ LRUPrevReference
    \/ LRUPrevReturn
    \/ Display
    \/ play
    \/ Tick

SpecPlayback == InitAnim /\ [][NextPlayback]_vars /\ WF_vars(Tick)

\* ------------------------------------------- two calls on the same input
\* The calls compared: reference sequences of at most MaxPairRefs pages.
MaxPairRefs == 4

\* The second call: the other engine on the same arguments (Clock and then
\* the prevState LRU, the prevState LRU and then the hitIndex LRU), or the
\* same LRU engine with more frames.
SecondCall(pol, n) ==
    \/ policy = "Clock" /\ pol = "LRUPrev" /\ n = frameCount
    \/ policy = "LRUPrev" /\ pol = "LRU" /\ n = frameCount
    \/ policy \in {"LRU", "LRUPrev"} /\ pol = policy /\ n > frameCount

\* The result of the finished call is kept and the engine pol is called
\* with n frames on the same reference sequence; a call starts with fresh
\* locals.
RunAgain(pol, n) ==
    /\ pc = "done"
    /\ ~baseline.loaded
    /\ SecondCall(pol, n)
    /\ baseline' = [loaded |-> TRUE, policy |-> policy, frameCount |-> frameCount,
                    steps |-> Result.steps, pageFaults |-> Result.pageFaults,
                    pageHits |-> Result.pageHits, hitRatio |-> Result.hitRatio,
                    missRatio |-> Result.missRatio]
    /\ policy' = pol
    /\ frameCount' = n
    /\ pc' = "call"
    /\ idx' = 0
    /\ frames' = NoArray
    /\ useBits' = NoArray
    /\ clockPointer' = 0
    /\ recency' = NoArray
    /\ pageFaults' = 0
    /\ pageHits' = 0
    /\ steps' = NoArray
    /\ hitRatio' = 0
    /\ missRatio' = 0
    /\ inspected' = <<>>
    /\ UNCHANGED <<formVars, animVars, pages>>

InitPair ==
    /\ Init
    /\ Length(pages) <= MaxPairRefs

NextPair ==
    \/ ClockInit
    \/ ClockReference
    \/ ClockInspect
    \/ ClockReturn
    \/ LRUInit
    \/ LRUReference
    \/ LRUReturn
    \/ LRUPrevInit
    \/ LRUPrevReference
    \/ LRUPrevReturn
    \/ \E pol \in {"LRU", "LRUPrev"}, n \in 1..MaxFrames : RunAgain(pol, n)

SpecPair == InitPair /\ [][NextPair]_vars

\* What the user typed into the two fields.
NumFramesInputs ==
    { <<>>, <<"0">>, <<"1">>, <<"2">>, <<"-", "1">>, <<"a">>, <<"2", "a">>,
      <<" ", "2">> }

ReferenceInputs ==
    { <<>>, <<"1">>, <<"1", ",", "0">>, <<"1", ",", "0", ",", "1">>,
      <<"-", "1">>, <<"-", "1", ",", "1">>, <<"1", ",", ",", "0">>,
      <<"a">>, <<"1", "a">>, <<" ", "1", " ", ",", " ", "0">>,
      <<"1", ",", "a">>, <<"0", ",", "1", ",", "-", "1">>, <<"1", ",">>,
      <<"1", ",", "1">> }

InitForm ==
    /\ numFrames \in NumFramesInputs
    /\ referenceString \in ReferenceInputs
    /\ AnimationLoaded
    /\ policy = "Clock"
    /\ pages = NoArray
    /\ frameCount = 0
    /\ pc = "form"
    /\ idx = 0
    /\ frames = NoArray
    /\ useBits = NoArray
    /\ clockPointer = 0
    /\ recency = NoArray
    /\ pageFaults = 0
    /\ pageHits = 0
    /\ steps = NoArray
    /\ hitRatio = 0
    /\ missRatio = 0
    /\ inspected = <<>>
    /\ baseline = NoData

NextForm ==
    \/ Submit
    \/ ClockInit
    \/ ClockReference
    \/ ClockInspect
    \/ ClockReturn
    \/ Display

SpecForm == InitForm /\ [][NextForm]_vars

\* The user retypes the frame-count field once the listener is through with
\* the previous submission; the next submit event reads the fields afresh.
EditForm ==
    /\ pc \in {"rejected", "shown", "error"}
    /\ numFrames' \in NumFramesInputs \ {numFrames}
    /\ pc' = "form"
    /\ UNCHANGED <<baseline, referenceString, animVars, argVars, runVars>>

\* Submissions one after another, with auto-play running in between.
NextResubmit ==
    \/ Submit
    \/ ClockInit
    \/ ClockReference
    \/ ClockInspect
    \/ ClockReturn
    \/ Display
    \/ EditForm
    \/ play
    \/ pause
    \/ Tick

SpecResubmit == InitForm /\ [][NextResubmit]_vars

\* ================================================================== claims
\* Vocabulary shared by the claims.
IsLRU == policy \in {"LRU", "LRUPrev"}
IsClock == policy = "Clock"

\* The elements of an array.
Elems(a) == {a[k] : k \in Indices(a)}

\* The pages resident in a frame snapshot: its non-empty entries.
Resident(fr) == Elems(fr) \ {Empty}

\* The indices of the reference steps recorded so far (step 0 is the
\* initial snapshot; step k records reference pages[k - 1]).
RefSteps == 1..(Length(steps) - 1)

\* The position (1-based) of the most recent reference to pg among the
\* first k references.
LastRef(pg, k) ==
    CHOOSE j \in 1..k :
        pages[j - 1] = pg /\ \A i \in 1..k : pages[i - 1] = pg => i <= j

NoDuplicates(a) == \A i, j \in Indices(a) : a[i] = a[j] => i = j

\* C1 (as claimed): at every step of an LRU run the recency order contains
\* exactly the non-empty frame entries, each exactly once, and its length is
\* at most frameCount.
C1_LRUResidencyLaw ==
    IsLRU =>
        \A k \in Indices(steps) :
            /\ Elems(steps[k].recency) = Resident(steps[k].frames)
            /\ NoDuplicates(steps[k].recency)
            /\ Length(steps[k].recency) <= frameCount

\* C2 (as claimed): at every LRU step the recency order lists the resident
\* pages in strictly increasing order of their most recent reference, and the
\* page evicted on a fault with all slots occupied is the resident page whose
\* most recent reference is the oldest.
C2_RecencyOrderedByLastReference ==
    IsLRU =>
        \A k \in Indices(steps) :
            LET rec == steps[k].recency IN
            /\ Elems(rec) = Resident(steps[k].frames)
            /\ \A i, j \in Indices(rec) :
                   i < j => LastRef(rec[i], k) < LastRef(rec[j], k)
            /\ (k >= 1 /\ steps[k].fault /\ Empty \notin Elems(steps[k - 1].frames)) =>
                   /\ steps[k].evictedPage \in Resident(steps[k - 1].frames)
                   /\ \A q \in Resident(steps[k - 1].frames) :
                          LastRef(steps[k].evictedPage, k - 1) <= LastRef(q, k - 1)

\* The first slot at or after s, in circular order, whose use bit is 0; s
\* itself when every use bit is 1 (the scan comes back after a full sweep).
Offset(s, r, n) == (r - s + n) % n

FirstZeroFrom(bits, s, n) ==
    IF \E q \in 0..(n - 1) : bits[q] = 0
    THEN CHOOSE r \in 0..(n - 1) :
            /\ bits[r] = 0
            /\ \A q \in 0..(n - 1) : bits[q] = 0 => Offset(s, r, n) <= Offset(s, q, n)
    ELSE s

\* The slots the scan passes over before it places the page in slot r.
PassedOver(bits, s, r, n) ==
    IF \E q \in 0..(n - 1) : bits[q] = 0
    THEN {q \in 0..(n - 1) : Offset(s, q, n) < Offset(s, r, n)}
    ELSE (0..(n - 1)) \ {s}

\* C3: on a Clock fault with the pointer at slot s, the page is placed in the
\* first slot r at or after s (circularly) whose use bit is 0, r = s after a
\* full sweep if all bits are 1; exactly slot r of the frames changes;
\* afterwards useBits[r] = 1, the slots passed over have use bit 0 and every
\* other use bit is unchanged.
C3_ClockFaultPlacement ==
    IsClock =>
        \A k \in RefSteps :
            steps[k].fault =>
                LET prev == steps[k - 1]
                    cur  == steps[k]
                    s    == prev.pointer
                    r    == FirstZeroFrom(prev.useBits, s, frameCount)
                    over == PassedOver(prev.useBits, s, r, frameCount)
                IN  /\ cur.frames = [prev.frames EXCEPT ![r] = cur.page]
                    /\ cur.frames[r] # prev.frames[r]
                    /\ cur.useBits[r] = 1
                    /\ \A q \in over : cur.useBits[q] = 0
                    /\ \A q \in (0..(frameCount - 1)) \ (over \cup {r}) :
                           cur.useBits[q] = prev.useBits[q]

\* C3 witness: a fault served after a full sweep over two frames (every use
\* bit was 1, the page went to the slot the pointer started at).
C3_Witness ==
    /\ IsClock
    /\ frameCount = 2
    /\ pc = "loop"
    /\ Length(steps) >= 2
    /\ steps[Length(steps) - 1].fault
    /\ \A q \in 0..1 : steps[Length(steps) - 2].useBits[q] = 1
    /\ steps[Length(steps) - 1].frames[steps[Length(steps) - 2].pointer]
         = steps[Length(steps) - 1].page

\* C4: after every Clock fault step, pointer = (r + 1) mod frameCount where r
\* is the slot that received the page; the slot just before the pointer,
\* which the renderer highlights, holds the referenced page.
C4_ClockPointerLaw ==
    IsClock =>
        \A k \in RefSteps :
            steps[k].fault =>
                \E r \in 0..(frameCount - 1) :
                    /\ steps[k].frames[r] = steps[k].page
                    /\ steps[k - 1].frames[r] # steps[k].page
                    /\ steps[k].pointer = (r + 1) % frameCount
                    /\ ReplacedIndex(steps[k]) = r

\* C4 witness: a fault step on two frames that replaced slot 1, so that the
\* pointer wrapped around to 0.
C4_Witness ==
    /\ IsClock
    /\ frameCount = 2
    /\ Length(steps) >= 2
    /\ steps[Length(steps) - 1].fault
    /\ steps[Length(steps) - 1].pointer = 0
    /\ steps[Length(steps) - 1].frames[1] = steps[Length(steps) - 1].page

\* How often the current fault scan inspected slot q.
Inspections(q) == Cardinality({i \in 1..Len(inspected) : inspected[i] = q})

\* C5: the fault scan makes at most 2 x frameCount inspections and inspects
\* no slot more than twice (so the while (true) loop terminates).
C5_ClockScanBound ==
    IsClock =>
        /\ Len(inspected) <= 2 * frameCount
        /\ \A q \in 0..(frameCount - 1) : Inspections(q) <= 2
        /\ \A i \in 1..Len(inspected) : inspected[i] \in 0..(frameCount - 1)

\* C5 witness: a scan over two frames has terminated after inspecting the
\* slot it started at twice.
C5_Witness ==
    /\ IsClock
    /\ frameCount = 2
    /\ pc = "loop"
    /\ Len(inspected) = 3
    /\ Inspections(inspected[1]) = 2

\* C6 (as claimed): an engine called with frameCount < 1 is rejected with an
\* error before any state is allocated or any reference processed, it returns
\* no result, and nothing is displayed.
C6_RejectsFrameCountBelowOne ==
    (pc \notin {"form", "rejected", "call"} /\ (frameCount < 1 \/ frameCount = NaN)) =>
        /\ pc = "error"
        /\ steps = NoArray
        /\ frames = NoArray
        /\ simulationData = NoData

\* C7 (as claimed): every Clock step carries the evicted page: the page that
\* was in the replaced slot on a fault that overwrote a non-empty slot, and
\* absent (null) on the initial step, on hits and on faults into an empty slot.
C7_ClockStepCarriesEvictedPage ==
    IsClock =>
        \A k \in Indices(steps) :
            /\ "evictedPage" \in DOMAIN steps[k]
            /\ IF k >= 1 /\ steps[k].fault
                  /\ steps[k - 1].frames[ReplacedIndex(steps[k])] # Empty
               THEN steps[k].evictedPage = steps[k - 1].frames[ReplacedIndex(steps[k])]
               ELSE steps[k].evictedPage = Null

\* C8 (as claimed): in LRU, evictedPage is present exactly on faults with
\* every slot occupied; it is the front of the previous recency order, the
\* page is written into the slot that held it, the other slots are unchanged,
\* the evicted page is no longer resident and the page ends the recency order.
C8_LRUEviction ==
    IsLRU =>
        \A k \in RefSteps :
            LET prev == steps[k - 1]
                cur  == steps[k]
            IN  /\ (cur.evictedPage # Null) <=>
                       (cur.fault /\ Empty \notin Elems(prev.frames))
                /\ (cur.evictedPage # Null) =>
                       /\ cur.evictedPage = prev.recency[0]
                       /\ \E r \in Indices(prev.frames) :
                              /\ prev.frames[r] = cur.evictedPage
                              /\ cur.frames = [prev.frames EXCEPT ![r] = cur.page]
                       /\ cur.evictedPage \notin Elems(cur.frames)
                       /\ cur.recency[Length(cur.recency) - 1] = cur.page

\* C9 (as claimed): in both engines a reference is a Hit exactly when the
\* page is resident (inserted earlier and not evicted since), otherwise a
\* Fault; the first reference of a run is a Fault.
C9_HitIffResident ==
    /\ Length(steps) >= 2 => steps[1].fault
    /\ \A k \in RefSteps :
           (~steps[k].fault) <=> (steps[k].page \in Resident(steps[k - 1].frames))

\* C10: on a Clock hit on page p found at slot i, frames and pointer equal
\* the previous step's, useBits[i] is 1, every other use bit is unchanged and
\* no page is evicted.
C10_ClockHitEffect ==
    IsClock =>
        \A k \in RefSteps :
            (~steps[k].fault) =>
                LET prev == steps[k - 1]
                    cur  == steps[k]
                    i    == cur.hitIndex
                IN  /\ i \in 0..(frameCount - 1)
                    /\ prev.frames[i] = cur.page
                    /\ cur.frames = prev.frames
                    /\ cur.pointer = prev.pointer
                    /\ cur.useBits = [prev.useBits EXCEPT ![i] = 1]
                    /\ Resident(cur.frames) = Resident(prev.frames)

\* C10 witness: a hit on a resident page whose use bit a sweep had cleared.
C10_Witness ==
    /\ IsClock
    /\ Length(steps) >= 2
    /\ ~steps[Length(steps) - 1].fault
    /\ steps[Length(steps) - 1].page # Empty
    /\ steps[Length(steps) - 2].useBits[steps[Length(steps) - 1].hitIndex] = 0
    /\ steps[Length(steps) - 1].useBits[steps[Length(steps) - 1].hitIndex] = 1

\* The array rec without its entries equal to pg, the others in order.
Without(rec, pg) ==
    LET keep == {i \in Indices(rec) : rec[i] # pg}
        rank(i) == Cardinality({j \in keep : j < i})
    IN  [k \in 0..(Cardinality(keep) - 1) |->
            rec[CHOOSE i \in keep : rank(i) = k]]

\* C11 (as claimed): on an LRU hit on page p the frames equal the previous
\* step's, evictedPage is absent, and the recency order is the previous order
\* with p removed from its position and appended at the end.
C11_LRUHitEffect ==
    IsLRU =>
        \A k \in RefSteps :
            (~steps[k].fault) =>
                /\ steps[k].frames = steps[k - 1].frames
                /\ steps[k].evictedPage = Null
                /\ steps[k].recency =
                       Push(Without(steps[k - 1].recency, steps[k].page), steps[k].page)

\* C12: on an LRU fault while some slot is empty, the page goes into the
\* lowest-index empty slot, every other slot is unchanged, the page is
\* appended to the recency order and no page is evicted.
C12_LRUFaultIntoEmptySlot ==
    IsLRU =>
        \A k \in RefSteps :
            (steps[k].fault /\ Empty \in Elems(steps[k - 1].frames)) =>
                LET prev == steps[k - 1]
                    cur  == steps[k]
                IN  \E r \in Indices(prev.frames) :
                        /\ prev.frames[r] = Empty
                        /\ \A q \in Indices(prev.frames) : prev.frames[q] = Empty => r <= q
                        /\ cur.frames = [prev.frames EXCEPT ![r] = cur.page]
                        /\ cur.recency = Push(prev.recency, cur.page)
                        /\ cur.evictedPage = Null

\* C12 witness: an LRU fault that filled slot 0 while both slots of a
\* two-frame run were empty.
C12_Witness ==
    /\ IsLRU
    /\ frameCount = 2
    /\ Length(steps) >= 2
    /\ steps[1].fault
    /\ steps[1].frames[0] = steps[1].page
    /\ steps[1].frames[1] = Empty

\* C13: in both engines, for every step k, cumulative hits + cumulative
\* faults = k; the initial step has both counters 0.
C13_CounterConsistency ==
    /\ \A k \in Indices(steps) : steps[k].hits + steps[k].faults = k
    /\ Length(steps) >= 1 => (steps[0].hits = 0 /\ steps[0].faults = 0)
    /\ pc = "done" => Indices(steps) = 0..Length(pages)

\* C13 witness: a finished run that recorded both a hit and a fault.
C13_Witness ==
    /\ pc = "done"
    /\ steps[Length(steps) - 1].hits >= 1
    /\ steps[Length(steps) - 1].faults >= 2

\* C14: the result of either engine has exactly n + 1 steps (totalSteps =
\* n + 1); step 0 is the initial snapshot (no page, all frameCount slots
\* empty, hits = faults = 0) and step k >= 1 records the k-th reference; for
\* n = 0 the result is just the initial step.
C14_StepCount ==
    pc = "done" =>
        /\ Length(steps) = Length(pages) + 1
        /\ Result.totalSteps = Length(pages) + 1
        /\ steps[0].page = Null
        /\ ~steps[0].fault
        /\ steps[0].frames = [q \in 0..(frameCount - 1) |-> Empty]
        /\ steps[0].hits = 0 /\ steps[0].faults = 0
        /\ \A k \in 1..Length(pages) : steps[k].page = pages[k - 1]
        /\ Length(pages) = 0 => (Result.pageHits = 0 /\ Result.pageFaults = 0)

\* C14 witness: a finished run over the longest reference sequence.
C14_Witness ==
    /\ pc = "done"
    /\ Length(pages) = MaxRefs
    /\ Length(steps) = MaxRefs + 1

\* C15: at every step of either engine no page identifier occupies more
\* than one frame slot (empty slots, which hold the sentinel, are no pages).
C15_NoDuplicateResidency ==
    \A k \in Indices(steps) :
        \A i, j \in Indices(steps[k].frames) :
            (steps[k].frames[i] = steps[k].frames[j] /\ steps[k].frames[i] # Empty)
                => i = j

\* C15 witness: two frames hold two different pages after an eviction
\* replaced a page that is referenced again later.
C15_Witness ==
    /\ frameCount = 2
    /\ Length(steps) >= 4
    /\ Resident(steps[2].frames) # Resident(steps[3].frames)
    /\ Cardinality(Resident(steps[3].frames)) = 2
    /\ Empty \notin Elems(steps[2].frames)

\* C16: every frame snapshot has exactly frameCount slots, and a page keeps
\* its slot index while it stays resident: a hit changes no slot and a fault
\* changes no slot but the one that receives the new page.
C16_SlotStability ==
    /\ \A k \in Indices(steps) : DOMAIN steps[k].frames = 0..(frameCount - 1)
    /\ \A k \in RefSteps :
           LET prev == steps[k - 1]
               cur  == steps[k]
               changed == {q \in 0..(frameCount - 1) : cur.frames[q] # prev.frames[q]}
           IN  /\ (~cur.fault) => changed = {}
               /\ cur.fault => /\ Cardinality(changed) <= 1
                               /\ \A q \in changed : cur.frames[q] = cur.page
               /\ \A pg \in Resident(prev.frames) \cap Resident(cur.frames) :
                      \A q \in 0..(frameCount - 1) :
                          (prev.frames[q] = pg) <=> (cur.frames[q] = pg)

\* C16 witness: a fault replaced slot 1 of two frames while the page in
\* slot 0 stayed where it was.
C16_Witness ==
    /\ frameCount = 2
    /\ Length(steps) >= 4
    /\ steps[Length(steps) - 1].fault
    /\ steps[Length(steps) - 2].frames[1] \notin {Empty, steps[Length(steps) - 1].frames[1]}
    /\ steps[Length(steps) - 2].frames[0] = steps[Length(steps) - 1].frames[0]

\* C17: in every step of a Clock run the pointer is an integer in
\* [0, frameCount), and it differs from the previous step's pointer only on
\* fault steps.
C17_ClockPointerRange ==
    IsClock =>
        /\ \A k \in Indices(steps) : steps[k].pointer \in 0..(frameCount - 1)
        /\ \A k \in RefSteps :
               steps[k].pointer # steps[k - 1].pointer => steps[k].fault

\* C17 witness: a hit recorded with the pointer at slot 1, where the
\* previous step left it.
C17_Witness ==
    /\ IsClock
    /\ Length(steps) >= 2
    /\ ~steps[Length(steps) - 1].fault
    /\ steps[Length(steps) - 1].pointer = 1
    /\ steps[Length(steps) - 2].pointer = 1

\* C20: for n > 0 references hitRatio and missRatio are hits/n x 100 and
\* faults/n x 100 rounded to two decimals (here in hundredths: within half a
\* hundredth of the exact value) and lie in [0, 100]; for n = 0 both are 0.
C20_Ratios ==
    pc = "done" =>
        LET n == Length(pages) IN
        IF n = 0 THEN Result.hitRatio = 0 /\ Result.missRatio = 0
        ELSE /\ Result.hitRatio \in 0..10000
             /\ Result.missRatio \in 0..10000
             /\ 2 * (Result.hitRatio * n - Result.pageHits * 10000) \in (0 - n + 1)..n
             /\ 2 * (Result.missRatio * n - Result.pageFaults * 10000) \in (0 - n + 1)..n

\* C20 witness: two hits in three references: 66.67 % and 33.33 %.
C20_Witness ==
    /\ pc = "done"
    /\ Length(pages) = 3
    /\ pageHits = 2
    /\ hitRatio = 6667
    /\ missRatio = 3333

IsNumericToken(token) ==
    LET t == Trim(token)
        u == IF t # <<>> /\ Head(t) \in {"-", "+"} THEN Tail(t) ELSE t
    IN  u # <<>> /\ \A i \in 1..Len(u) : IsDigit(u[i])

\* The form holds an input the validation has to reject.
InvalidForm ==
    \/ numFrames = <<>>
    \/ referenceString = <<>>
    \/ \E i \in 1..Len(Split(referenceString)) :
           ~IsNumericToken(Split(referenceString)[i])

\* C21 (as claimed): once the form was submitted with an empty frame-count
\* field, an empty reference string, or a token that is empty or not a
\* number (digits followed by other characters included), the submission was
\* rejected: no simulation ran and the animation state is as it was.
C21_InvalidInputRejected ==
    (pc # "form" /\ InvalidForm) =>
        /\ pc = "rejected"
        /\ steps = NoArray
        /\ simulationData = NoData

\* A simulation is shown by the animation module.
Loaded == simulationData.loaded

\* The index of the last step of the simulation shown.
LastStep == Length(simulationData.steps) - 1

\* C22: with a simulation loaded, after any control operation or timer tick
\* currentStep is an index of steps; stepForward at the last step and
\* stepBackward at step 0 leave it unchanged.
C22_CurrentStepInRange ==
    [][/\ simulationData'.loaded =>
              currentStep' \in 0..(Length(simulationData'.steps) - 1)
       /\ (Loaded /\ currentStep = LastStep /\ stepForward) =>
              currentStep' = currentStep
       /\ (Loaded /\ currentStep = 0 /\ stepBackward) =>
              currentStep' = currentStep]_vars

\* C22 witness: the last of three steps is shown and auto-play, started
\* earlier, has stopped.
C22_Witness ==
    /\ Loaded
    /\ LastStep = 2
    /\ currentStep = LastStep
    /\ animationInterval # NoTimer
    /\ ~isPlaying

\* C23: with a simulation loaded, jumpToStep(k) for k in the slider range
\* leaves currentStep = k, auto-play paused (isPlaying false, no live timer)
\* and step k drawn, in one transition; with no simulation loaded it changes
\* nothing.
C23_JumpToStep ==
    [][\A k \in 0..timeline.max :
           jumpToStep(k) =>
               IF Loaded
               THEN /\ currentStep' = k
                    /\ ~isPlaying'
                    /\ DOMAIN timers' = {}
                    /\ canvas'.drawn /\ canvas'.step = k
                    /\ timeline'.value = k
                    /\ simulationData' = simulationData
               ELSE UNCHANGED vars]_vars

\* C23 witness: the last of three steps is shown and drawn, paused with no
\* live timer, after the speed slider was moved.
C23_Witness ==
    /\ Loaded
    /\ LastStep = 2
    /\ currentStep = 2
    /\ canvas.drawn /\ canvas.step = 2
    /\ ~isPlaying
    /\ DOMAIN timers = {}
    /\ animationSpeed # DefaultSpeed

\* C24 (as claimed): in the renderer of the prevState LRU variant, a drawn
\* Fault step (index > 0) has exactly one red frame, the one whose content
\* was replaced by the referenced page, and no green frame; a drawn Hit step
\* has exactly one green frame, the one holding the referenced page, and no
\* red frame.
C24_LRUHighlight ==
    (policy = "LRUPrev" /\ Loaded /\ canvas.drawn /\ canvas.step > 0) =>
        LET state == simulationData.steps[canvas.step]
            red   == {i \in DOMAIN canvas.colors : canvas.colors[i] = "red"}
            green == {i \in DOMAIN canvas.colors : canvas.colors[i] = "green"}
        IN  IF state.fault
            THEN /\ green = {}
                 /\ \E r \in DOMAIN canvas.colors :
                        /\ red = {r}
                        /\ state.frames[r] = state.page
                        /\ state.prevState.frames[r] # state.page
            ELSE /\ red = {}
                 /\ \E g \in DOMAIN canvas.colors :
                        /\ green = {g}
                        /\ state.frames[g] = state.page

\* The number of steps among 1..k whose fault flag is b.
Outcomes(k, b) == Cardinality({j \in 1..k : steps[j].fault = b})

\* C25: in both engines the counters on step k are the numbers of Fault and
\* of Hit outcomes among steps 1..k, each reference raising exactly one of
\* them by one; the result's pageFaults and pageHits are the counters of the
\* last step and sum to n.
C25_CountersCountOutcomes ==
    /\ \A k \in Indices(steps) :
           /\ steps[k].faults = Outcomes(k, TRUE)
           /\ steps[k].hits = Outcomes(k, FALSE)
    /\ \A k \in RefSteps :
           LET df == steps[k].faults - steps[k - 1].faults
               dh == steps[k].hits - steps[k - 1].hits
           IN  <<df, dh>> \in {<<1, 0>>, <<0, 1>>}
    /\ pc = "done" =>
           /\ Result.pageFaults = steps[Length(steps) - 1].faults
           /\ Result.pageHits = steps[Length(steps) - 1].hits
           /\ Result.pageFaults + Result.pageHits = Length(pages)

\* C25 witness: a finished run with more hits than faults.
C25_Witness ==
    /\ pc = "done"
    /\ pageHits > pageFaults
    /\ pageFaults >= 1

\* C26 (as claimed): after every reference step of either engine the
\* referenced page occupies exactly one slot of the step's frames, and in
\* LRU it is the last element of the step's recency order.
C26_ReferencedPageResident ==
    \A k \in RefSteps :
        /\ Cardinality({q \in Indices(steps[k].frames) :
                            steps[k].frames[q] = steps[k].page}) = 1
        /\ IsLRU =>
               /\ Length(steps[k].recency) >= 1
               /\ steps[k].recency[Length(steps[k].recency) - 1] = steps[k].page

\* C27 (as claimed): in Clock, while some slot is empty the occupied slots
\* are exactly 0..pointer-1 and every empty slot has use bit 0, and a fault
\* fills the lowest-index empty slot and changes no other slot.
C27_ClockFillsInOrder ==
    IsClock =>
        /\ \A k \in Indices(steps) :
               Empty \in Elems(steps[k].frames) =>
                   /\ {q \in Indices(steps[k].frames) : steps[k].frames[q] # Empty}
                          = 0..(steps[k].pointer - 1)
                   /\ \A q \in Indices(steps[k].frames) :
                          steps[k].frames[q] = Empty => steps[k].useBits[q] = 0
        /\ \A k \in RefSteps :
               (steps[k].fault /\ Empty \in Elems(steps[k - 1].frames)) =>
                   steps[k].frames =
                       [steps[k - 1].frames EXCEPT
                            ![IndexOf(steps[k - 1].frames, Empty)] = steps[k].page]

\* The first step whose frames have no empty slot; the last step if there is
\* none.
FillStep(stps) ==
    IF \E k \in Indices(stps) : Empty \notin Elems(stps[k].frames)
    THEN CHOOSE k \in Indices(stps) :
            /\ Empty \notin Elems(stps[k].frames)
            /\ \A j \in Indices(stps) : Empty \notin Elems(stps[j].frames) => k <= j
    ELSE Length(stps) - 1

\* C28 (as claimed): on the same reference sequence and frameCount, Clock and
\* LRU record the same frames and the same Hit/Fault outcome at every step up
\* to and including the step that fills the last empty slot.
C28_ClockAndLRUAgreeWhileFilling ==
    (baseline.loaded /\ baseline.policy = "Clock" /\ policy = "LRUPrev") =>
        \A k \in Indices(steps) :
            k <= FillStep(baseline.steps) =>
                /\ steps[k].frames = baseline.steps[k].frames
                /\ steps[k].fault = baseline.steps[k].fault

\* C29: the prevState variant and the hitIndex variant of LRU, on the same
\* reference sequence and frameCount, record at every step the same frames,
\* recency order, page, fault flag, evictedPage and counters, and return the
\* same counts and ratios.
C29_LRUVariantsAgree ==
    (baseline.loaded /\ baseline.policy = "LRUPrev" /\ policy = "LRU") =>
        /\ frameCount = baseline.frameCount
        /\ \A k \in Indices(steps) :
               LET a == baseline.steps[k]
                   b == steps[k]
               IN  /\ k \in Indices(baseline.steps)
                   /\ a.frames = b.frames
                   /\ a.recency = b.recency
                   /\ a.page = b.page
                   /\ a.fault = b.fault
                   /\ a.evictedPage = b.evictedPage
                   /\ a.faults = b.faults
                   /\ a.hits = b.hits
        /\ pc = "done" =>
               /\ Length(steps) = Length(baseline.steps)
               /\ Result.pageFaults = baseline.pageFaults
               /\ Result.pageHits = baseline.pageHits
               /\ Result.hitRatio = baseline.hitRatio
               /\ Result.missRatio = baseline.missRatio

\* C29 witness: both variants have run on three references over one frame,
\* with a hit and an eviction.
C29_Witness ==
    /\ baseline.loaded
    /\ baseline.policy = "LRUPrev"
    /\ policy = "LRU"
    /\ pc = "done"
    /\ pageHits >= 1
    /\ \E k \in RefSteps : steps[k].evictedPage # Null

\* C30 (as claimed): LRU inclusion: for frame counts k < k' on the same
\* reference sequence, at every step the pages resident with k frames are
\* resident with k' frames, and the final fault count with k' frames is not
\* larger.
C30_LRUInclusion ==
    (baseline.loaded /\ baseline.policy = policy /\ baseline.frameCount < frameCount) =>
        /\ \A k \in Indices(steps) :
               Resident(baseline.steps[k].frames) \subseteq Resident(steps[k].frames)
        /\ pc = "done" => Result.pageFaults <= baseline.pageFaults

\* The reference recorded by step k is the first reference to its page.
FirstReference(k) == \A j \in 1..(k - 1) : pages[j - 1] # pages[k - 1]

\* C31 (as claimed): if the reference sequence has at most frameCount
\* distinct pages then, in every engine, no resident page is ever evicted,
\* each page faults exactly once, on its first reference, and the final
\* fault count is the number of distinct pages.
C31_NoEvictionWhenPagesFit ==
    Cardinality(Elems(pages)) <= frameCount =>
        /\ \A k \in RefSteps :
               /\ Resident(steps[k - 1].frames) \subseteq Resident(steps[k].frames)
               /\ "evictedPage" \in DOMAIN steps[k] => steps[k].evictedPage = Null
               /\ steps[k].fault <=> FirstReference(k)
        /\ pc = "done" => Result.pageFaults = Cardinality(Elems(pages))

\* C38 (as claimed): in Clock and in the hitIndex LRU variant every Hit step
\* records as hitIndex the one slot holding the referenced page, which is
\* the one frame drawn green, and every Fault step records hitIndex = -1.
C38_HitIndex ==
    policy \in {"Clock", "LRU"} =>
        \A k \in RefSteps :
            IF steps[k].fault
            THEN steps[k].hitIndex = -1
            ELSE /\ {i \in Indices(steps[k].frames) :
                         steps[k].frames[i] = steps[k].page} = {steps[k].hitIndex}
                 /\ {i \in Indices(steps[k].frames) :
                         FrameColor(steps[k], i, k) = "green"} = {steps[k].hitIndex}

\* C39: in the prevState LRU variant, for every step k >= 1 prevState.frames
\* and prevState.recency are the frames and recency snapshots of step k - 1,
\* and step 0 has prevState = null.
C39_PrevStateIsPreviousStep ==
    policy = "LRUPrev" =>
        /\ Length(steps) >= 1 => steps[0].prevState = NoPrevState
        /\ \A k \in RefSteps :
               /\ ~steps[k].prevState.isNull
               /\ steps[k].prevState.frames = steps[k - 1].frames
               /\ steps[k].prevState.recency = steps[k - 1].recency

\* C39 witness: the step of an eviction, whose prevState still shows the
\* evicted page and the recency order it headed.
C39_Witness ==
    /\ policy = "LRUPrev"
    /\ Length(steps) >= 3
    /\ steps[2].evictedPage # Null
    /\ steps[2].evictedPage \in Elems(steps[2].prevState.frames)
    /\ steps[2].prevState.recency[0] = steps[2].evictedPage
    /\ steps[2].prevState.frames # steps[2].frames

\* C32 (as claimed): whenever stepForward or stepBackward is invoked while
\* auto-play is running, at any position, auto-play is stopped when the call
\* returns: no state with auto-play running allows a call of either that
\* returns with isPlaying true or a timer live.
C32_ManualStepPauses ==
    (Loaded /\ isPlaying) =>
        /\ ~ENABLED (stepForward /\ (isPlaying' \/ DOMAIN timers' # {}))
        /\ ~ENABLED (stepBackward /\ (isPlaying' \/ DOMAIN timers' # {}))

C35_SetSpeedKeepsPosition ==
    [][\A v \in SpeedValues :
           setSpeed(v) =>
               /\ currentStep' = currentStep
               /\ isPlaying' = isPlaying
               /\ animationSpeed' = 2100 - v
               /\ isPlaying =>
                      \E id \in DOMAIN timers' :
                          /\ DOMAIN timers' = {id}
                          /\ timers'[id] = 2100 - v]_vars

\* C36 (as claimed): with a simulation loaded, after every control operation
\* and timer tick the step last drawn, the slider value and the step label
\* equal currentStep.
C36_ViewShowsCurrentStep ==
    Loaded =>
        /\ canvas.drawn
        /\ canvas.step = currentStep
        /\ timeline.value = currentStep
        /\ timeline.label = currentStep

\* C33: after play() with a simulation loaded and no other control invoked,
\* each tick advances currentStep by exactly one until the last step is
\* shown; the tick after that stops playback (isPlaying false, timer
\* cleared), which then stays stopped at the last step until play() is
\* invoked, and play() at the last step restarts from step 0. With ticks
\* firing, playback does reach the last step and stop.
C33_PlaybackRunsToTheEnd ==
    /\ [][/\ (Loaded /\ isPlaying /\ Tick) =>
                 IF currentStep < LastStep
                 THEN currentStep' = currentStep + 1 /\ isPlaying'
                 ELSE /\ currentStep' = currentStep
                      /\ ~isPlaying'
                      /\ DOMAIN timers' = {}
          /\ (Loaded /\ ~isPlaying /\ ~isPlaying') => currentStep' = currentStep
          /\ (Loaded /\ ~isPlaying /\ isPlaying') =>
                 currentStep' = IF currentStep = LastStep THEN 0 ELSE currentStep]_vars
    /\ (Loaded /\ isPlaying) ~> (Loaded /\ ~isPlaying /\ currentStep = LastStep)

\* C33 witness: playback has run to the last of three steps for the second
\* time and stopped there.
C33_Witness ==
    /\ Loaded
    /\ LastStep = 2
    /\ currentStep = LastStep
    /\ ~isPlaying
    /\ DOMAIN timers = {}
    /\ animationInterval = 2

\* C37: a submission that produces a result while the previous one is
\* auto-playing stops playback: when the listener returns isPlaying is false,
\* no timer is live, currentStep is 0 and the data shown is the new result;
\* a timer is live only with a simulation loaded and playing, so the timer
\* callback never runs on a null simulationData, and the position moves
\* forward only while playing.
C37_ResubmitStopsPlayback ==
    /\ [](DOMAIN timers # {} => (Loaded /\ isPlaying))
    /\ [][/\ (pc = "done" /\ pc' = "shown") =>
                 /\ ~isPlaying'
                 /\ DOMAIN timers' = {}
                 /\ currentStep' = 0
                 /\ simulationData' = Result
                 /\ canvas'.drawn /\ canvas'.step = 0
          /\ currentStep' > currentStep => (isPlaying /\ isPlaying')]_vars

\* C37 witness: the listener of a second submission has its result while the
\* first one is auto-playing past step 0, and its last step stops playback.
C37_Witness ==
    /\ pc = "done"
    /\ Loaded
    /\ isPlaying
    /\ DOMAIN timers # {}
    /\ currentStep > 0
    /\ Result # simulationData
    /\ ENABLED (Display /\ ~isPlaying' /\ DOMAIN timers' = {} /\ currentStep' = 0
                        /\ simulationData' # simulationData)

====
